---- MODULE Spec2Model ----
(***************************************************************************)
(* A model of postpone (src/index.js): the engine that defers loading of   *)
(* media elements until they scroll into view.  The host document (DOM     *)
(* attributes, geometry, listeners, timers) is part of the state; every    *)
(* method of Postpone.prototype is one operator or action.                 *)
(***************************************************************************)
EXTENDS Integers, Sequences, FiniteSets, TLC

(***************************** bounds **************************************)
\* Largest value of the millisecond clock read by new Date().getTime().
MaxClock == 3
\* Largest number of child nodes of an element given to load().
MaxChildren == 2
\* Largest number of calls of load() in a row on one element.
MaxLoads == 2
\* Largest number of changes the host document makes to its attributes.
MaxHostEdits == 2
\* The largest offset, height and scroll position isVisible() is called with.
MaxOffset == 2

(************************** the host document ******************************)
\* getAttribute() of an attribute that is not there.
Null == "<null>"
\* JavaScript truthiness of a getAttribute() result.
Truthy(v) == v # Null /\ v # ""

\* The postponable nodes of the document, in document order.
Elems == <<"e1", "e2">>
ElemSet == {Elems[i] : i \in 1..Len(Elems)}
\* The nodes that can be named by a data-scroll-element selector.
Containers == {"c1", "c2"}
\* Scroll surfaces: the window and the containers.
Targets == {"window"} \cup Containers

\* document.querySelector(selector): the node, or Null when nothing matches.
QuerySelector(sel) ==
    IF sel = "#c1" THEN "c1" ELSE IF sel = "#c2" THEN "c2" ELSE Null

\* All nodes that have a box: the postponable nodes, the containers, body.
Nodes == ElemSet \cup Containers \cup {"body"}

\* this.tags
tags == {"audio", "embed", "iframe", "img", "image", "picture", "use", "video", "tref"}

\* ~"audio, embed, iframe, img, picture, video".indexOf( tagName ): a substring
\* test; among node names these are the ones found in the string.
InSrcList(t) == t \in {"audio", "embed", "iframe", "img", "picture", "video"}
\* ~"image, tref, use".indexOf( tagName )
InXlinkList(t) == t \in {"image", "tref", "use"}
\* ~"audio, video".indexOf( tagName )
InAudioVideoList(t) == t \in {"audio", "video"}

\* A child node: its tag and the four attributes load() reads or writes.
Child(t, ds, s, dss, ss) ==
    [tag |-> t, dataSrc |-> ds, src |-> s, dataSrcset |-> dss, srcset |-> ss]

\* An element node: its tag, its attributes and its children.
Element(t, p, ds, s, dx, x, se, ch) ==
    [tag |-> t, postpone |-> p, dataSrc |-> ds, src |-> s,
     dataXlink |-> dx, xlink |-> x, scrollSel |-> se, children |-> ch]

(******************************* load **************************************)
\* The result of a call: the element as it is left, and whether the call
\* ended by raising an error.
Outcome(el, threw) == [el |-> el, threw |-> threw]

\* Body of the audio/video loop for one child (lines 317-320).
LoadSourceChild(child) ==
    IF child.tag = "source" /\ Truthy(child.dataSrc)
    THEN [child EXCEPT !.src = child.dataSrc]
    ELSE child

\* Body of the picture loop for one child (lines 326-334).
LoadPictureChild(child) ==
    IF child.tag = "source"
    THEN LET c1 == IF Truthy(child.dataSrc)
                   THEN [child EXCEPT !.src = child.dataSrc] ELSE child
         IN IF Truthy(child.dataSrcset)
            THEN [c1 EXCEPT !.srcset = c1.dataSrcset] ELSE c1
    ELSE child

\* Whether the loop "for ( i = 0; i <= el.children.length; i++ )" runs its
\* body for index i (0-based).
LoopRuns(i, length) == i <= length

\* The two child loops (lines 316-321 and 325-335): i is the 0-based index.
\* el.children[ i ] is undefined at i = length, and reading its tagName
\* raises a TypeError.
RECURSIVE LoadChildren(_, _, _)
LoadChildren(el, i, picture) ==
    IF ~LoopRuns(i, Len(el.children)) THEN Outcome(el, FALSE)
    ELSE IF i + 1 > Len(el.children) THEN Outcome(el, TRUE)
    ELSE LoadChildren(
            [el EXCEPT !.children[i + 1] =
                IF picture THEN LoadPictureChild(@) ELSE LoadSourceChild(@)],
            i + 1, picture)

\* Postpone.prototype.load
load(el) ==
    LET e1 == [el EXCEPT !.postpone = Null]
        e2 == IF InSrcList(e1.tag) /\ Truthy(e1.dataSrc)
              THEN [e1 EXCEPT !.src = e1.dataSrc] ELSE e1
    IN  IF InXlinkList(e2.tag) /\ Truthy(e2.dataXlink)
        THEN Outcome([e2 EXCEPT !.xlink = e2.dataXlink], FALSE)
        ELSE IF InAudioVideoList(e2.tag) /\ Len(e2.children) # 0
        THEN LoadChildren(e2, 0, FALSE)
        ELSE IF e2.tag = "picture" /\ Len(e2.children) # 0
        THEN LoadChildren(e2, 0, TRUE)
        ELSE Outcome(e2, FALSE)

(***************************** geometry ************************************)
\* Postpone.prototype.offsetTop: the sum of offsetTop along the offsetParent
\* chain, up to (excluding) body or the end of the chain.  g is the layout:
\* g.top[n] is n.offsetTop, g.parent[n] is n.offsetParent (Null for none).
RECURSIVE offsetTop(_, _)
offsetTop(g, el) ==
    IF el = Null \/ el = "body" THEN 0
    ELSE g.top[el] + offsetTop(g, g.parent[el])

\* The comparison of line 292 made strict.
CompareStrict(a, b) == a > b

\* The comparison of line 292.
Compare(a, b) == a >= b

\* Postpone.prototype.isVisible.  scrollElement is a node, "window", or
\* Null (nothing given); sc[n] is n.scrollTop.
isVisible(g, sc, el, scrollElement) ==
    LET se1 == IF scrollElement # Null THEN scrollElement ELSE "window"
        se2 == IF se1 = "window" THEN "body" ELSE se1
        viewPortHeight == g.clientHeight
        top == offsetTop(g, el)
        scrollHeight == sc[se2] + offsetTop(g, se2)
    IN  Compare(viewPortHeight + scrollHeight, top)

(************************* the engine's state ******************************)
VARIABLES
    dom,            \* [ElemSet -> Element]: the postponable nodes
    dataId,         \* [Containers -> string]: the data-id attribute
    geo,            \* the layout: clientHeight, offsetTop, offsetParent
    scrollTop,      \* scrollTop of body and of each container
    listeners,      \* [Targets -> set of callbacks]: "scroll" listeners
    timers,         \* pending window.setTimeout calls: [id, arg]
    clock,          \* the last value new Date().getTime() returned
    engine,         \* "none": not constructed, "live", "dead": init threw
    elements,       \* this.elements
    scrollElements, \* this.scrollElements, in key insertion order
    timeout,        \* this.timeout (0: undefined)
    hostEdits,      \* how many attribute changes the host has made
    last,           \* what the last step did
    loadArg,        \* load() on its own: the element as first given
    loadEl,         \* ... the element as it is now
    loadOnce,       \* ... the element as the first call left it
    loadCalls,      \* ... the number of calls made
    loadThrew,      \* ... whether the last call raised an error
    isVisibleCall   \* isVisible() on its own: the last call and its result

engineVars == <<dom, dataId, geo, scrollTop, listeners, timers, clock, engine,
                elements, scrollElements, timeout, hostEdits, last>>
loadVars == <<loadArg, loadEl, loadOnce, loadCalls, loadThrew>>
vars == <<engineVars, loadVars, isVisibleCall>>

\* The value of a parameter that was not passed.
Undefined == <<"undefined">>

\* The part of the state a method of Postpone reads and writes, as one
\* record, so that methods compose; threw: the call ended by raising an
\* error; loaded: the nodes load() was called on; rebuilt: postpone() ran;
\* clockRead: the current scan has read the clock.
Here ==
    [dom |-> dom, dataId |-> dataId, listeners |-> listeners,
     timers |-> timers, clock |-> clock, elements |-> elements,
     scrollElements |-> scrollElements, timeout |-> timeout,
     threw |-> FALSE, loaded |-> {}, rebuilt |-> FALSE, clockRead |-> FALSE]

(***************************** discovery ***********************************)
\* The test of line 100 without typeof: a missing attribute passes.
IsNotFalse(postpone) == postpone # "false"

\* The test of line 100 with a truthiness test in place of typeof: an empty
\* attribute does not pass.
IsTruthyMarker(postpone) == Truthy(postpone) /\ postpone # "false"

\* The test of line 100 on the postpone attribute.
IsPostponed(postpone) == postpone # Null /\ postpone # "false"

\* Postpone.prototype.getElements: this.elements afterwards.
getElements(s) ==
    LET Keep(e) == s.dom[e].tag \in tags /\ IsPostponed(s.dom[e].postpone)
    IN  [s EXCEPT !.elements = SelectSeq(Elems, Keep)]

(****************************** grouping ***********************************)
\* One entry of this.scrollElements: the key, the array of nodes, and the
\* array's element and callback properties (callback 0: not set).
Group(id, list, element, callback) ==
    [id |-> id, list |-> list, element |-> element, callback |-> callback]

\* The index of the entry keyed id in the groups gs, 0 when there is none.
KeyIndex(gs, id) ==
    IF \E k \in 1..Len(gs) : gs[k].id = id
    THEN CHOOSE k \in 1..Len(gs) : gs[k].id = id
    ELSE 0

\* new Date().getTime(): now is the value of the last read.  The first read
\* of a scan comes at least a millisecond after the last read of an earlier
\* scan; a later read of the same scan may fall in the same millisecond
\* (tick tells whether the clock has advanced).
getTime(now, first, tick) == IF first \/ tick THEN now + 1 ELSE now

\* The identifier written for a container that has none (line 142).
NewId(t) == ToString(t)

\* The loop of getScrollElements from index i on; adv tells whether the
\* clock advances between two reads of the same scan.
RECURSIVE GroupFrom(_, _, _)
GroupFrom(s, i, adv) ==
    IF i > Len(s.elements) THEN s
    ELSE
      LET element == s.elements[i]
          sel == s.dom[element].scrollSel
          scrollElement == IF Truthy(sel) THEN QuerySelector(sel) ELSE "window"
      IN  IF scrollElement = Null
          THEN [s EXCEPT !.threw = TRUE]  \* null.getAttribute, line 140
          ELSE
            LET old == IF Truthy(sel) THEN s.dataId[scrollElement] ELSE "window"
                t == getTime(s.clock, ~s.clockRead, adv)
                id == IF Truthy(old) THEN old ELSE NewId(t)
                s1 == IF Truthy(old) THEN s
                      ELSE [s EXCEPT !.dataId[scrollElement] = id, !.clock = t,
                                     !.clockRead = TRUE]
                k == KeyIndex(s1.scrollElements, id)
                s2 == IF k # 0
                      THEN [s1 EXCEPT !.scrollElements[k].list = Append(@, element)]
                      ELSE [s1 EXCEPT !.scrollElements =
                              Append(@, Group(id, <<element>>, scrollElement, 0))]
            IN  GroupFrom(s2, i + 1, adv)

\* Postpone.prototype.getScrollElements
getScrollElements(s, adv) ==
    GroupFrom([s EXCEPT !.scrollElements = <<>>, !.clockRead = FALSE], 1, adv)

(****************************** snapshot ***********************************)
\* outerHTML of a child node, as the sequence of its tokens.
ChildHTML(c) ==
    <<"<", c.tag, c.dataSrc, c.src, c.dataSrcset, c.srcset, ">", "</", c.tag, ">">>

RECURSIVE ChildrenHTML(_)
ChildrenHTML(cs) ==
    IF cs = <<>> THEN <<>> ELSE ChildHTML(Head(cs)) \o ChildrenHTML(Tail(cs))

\* outerHTML of an element: its tag, its attributes, its children.
outerHTML(el) ==
    <<"<", el.tag, el.postpone, el.dataSrc, el.src, el.dataXlink, el.xlink,
      el.scrollSel, ">">> \o ChildrenHTML(el.children) \o <<"</", el.tag, ">">>

\* Postpone.prototype.stringifyElements: the loop from index i on.
RECURSIVE stringifyFrom(_, _, _)
stringifyFrom(d, els, i) ==
    IF i > Len(els) THEN <<>>
    ELSE outerHTML(d[els[i]]) \o stringifyFrom(d, els, i + 1)

stringifyElements(d, els) == stringifyFrom(d, els, 1)

(****************************** binding ************************************)
\* The surface a group's listener goes on: window for the key "window",
\* the group's container otherwise (lines 65-69 and 79-83).
ListenerTarget(g) == IF g.id = "window" THEN "window" ELSE g.element

\* A function object that is not attached anywhere: what
\* this.scrollHandler.bind( this ) returns.
NewCallback(ls) ==
    LET used == UNION {ls[t] : t \in DOMAIN ls}
    IN  CHOOSE c \in 1..(Cardinality(used) + 1) : c \notin used

\* removeEventListener( "scroll", callback )
removeEventListener(ls, target, callback) ==
    [ls EXCEPT ![target] = @ \ {callback}]

\* addEventListener( "scroll", callback )
addEventListener(ls, target, callback) ==
    [ls EXCEPT ![target] = @ \cup {callback}]

\* The loop of lines 64-70 from entry k on.
RECURSIVE UnbindFrom(_, _)
UnbindFrom(s, k) ==
    IF k > Len(s.scrollElements) THEN s
    ELSE LET g == s.scrollElements[k]
         IN  UnbindFrom(
                [s EXCEPT !.listeners =
                    removeEventListener(@, ListenerTarget(g), g.callback)],
                k + 1)

\* The loop of lines 77-84 from entry k on.
RECURSIVE BindFrom(_, _)
BindFrom(s, k) ==
    IF k > Len(s.scrollElements) THEN s
    ELSE LET g == s.scrollElements[k]
             cb == NewCallback(s.listeners)
         IN  BindFrom(
                [s EXCEPT !.scrollElements[k].callback = cb,
                          !.listeners = addEventListener(@, ListenerTarget(g), cb)],
                k + 1)

\* Lines 64-70 left out: the old listeners stay attached.
UnbindNothing(s) == s

\* Lines 64-70 of postpone: remove the listeners of the current index.
Unbind(s) == UnbindFrom(s, 1)

\* Postpone.prototype.postpone
postpone(s, adv) ==
    LET s1 == [Unbind(s) EXCEPT !.rebuilt = TRUE]
    IN  IF Len(s1.elements) # 0
        THEN LET s2 == getScrollElements(getElements(s1), adv)
             IN  IF s2.threw THEN s2 ELSE BindFrom(s2, 1)
        ELSE s1

(****************************** polling ************************************)
\* A timer identifier no pending timer has.
NewTimer(ts) ==
    LET used == {t.id : t \in ts}
    IN  CHOOSE n \in 1..(Cardinality(used) + 1) : n \notin used

\* window.setTimeout( function() { watch( arg ) }, 500 ): the timers after.
setTimeout(ts, id, arg) == ts \cup {[id |-> id, arg |-> arg]}

\* window.clearTimeout( id ): the timers after.
clearTimeout(ts, id) == {t \in ts : t.id # id}

\* The test of line 192.
Changed(elementsString, newElementsString) ==
    /\ elementsString # Undefined /\ elementsString # <<>>
    /\ elementsString # newElementsString

\* Lines 200-204 of watch: schedule the next call.
Schedule(s, newElementsString) ==
    LET id == NewTimer(s.timers)
    IN  [s EXCEPT !.timers = setTimeout(@, id, newElementsString),
                  !.timeout = id]

\* Postpone.prototype.watch
watch(s, elementsString, adv) ==
    LET s1 == getElements(s)
        newElementsString == stringifyElements(s1.dom, s1.elements)
        s2 == IF Changed(elementsString, newElementsString)
              THEN postpone(s1, adv) ELSE s1
    IN  IF s2.threw THEN s2 ELSE Schedule(s2, newElementsString)

\* stop without the clearTimeout call.
stopKeepsTimer(s) == s

\* Postpone.prototype.stop
stop(s) ==
    IF s.timeout # 0
    THEN [s EXCEPT !.timers = clearTimeout(@, s.timeout)]
    ELSE s

\* start without the call of stop (line 215 left out).
startWithoutStop(s, adv) == watch(s, Undefined, adv)

\* Postpone.prototype.start
start(s, adv) ==
    watch(IF s.timeout # 0 THEN stop(s) ELSE s, Undefined, adv)

(*************************** scroll handling *******************************)
\* The loops of lines 34-39 and 244-254: test and load the nodes of list
\* from index i on, against scrollElement.  A load() that raises ends it.
RECURSIVE LoadVisibleFrom(_, _, _, _, _, _)
LoadVisibleFrom(s, g, sc, list, i, scrollElement) ==
    IF i > Len(list) THEN s
    ELSE LET element == list[i]
         IN  IF isVisible(g, sc, element, scrollElement)
             THEN LET r == load(s.dom[element])
                      s1 == [s EXCEPT !.dom[element] = r.el,
                                      !.loaded = @ \cup {element},
                                      !.threw = r.threw]
                  IN  IF r.threw THEN s1
                      ELSE LoadVisibleFrom(s1, g, sc, list, i + 1, scrollElement)
             ELSE LoadVisibleFrom(s, g, sc, list, i + 1, scrollElement)

\* scrollHandler that takes the first group of the index whatever the source
\* of the event (the lookup of lines 239-240 left out).
scrollHandlerFirstGroup(s, g, sc, srcElement) ==
    LET scrollElement == IF srcElement = "document" THEN "window" ELSE srcElement
    IN  IF Len(s.scrollElements) = 0
        THEN [s EXCEPT !.threw = TRUE]
        ELSE LoadVisibleFrom(s, g, sc, s.scrollElements[1].list, 1, scrollElement)

\* Postpone.prototype.scrollHandler; srcElement is e.srcElement: "document"
\* for a scroll of the window, the container otherwise.
scrollHandler(s, g, sc, srcElement) ==
    LET key == IF srcElement = "document" THEN "window" ELSE s.dataId[srcElement]
        scrollElement == IF srcElement = "document" THEN "window" ELSE srcElement
        k == KeyIndex(s.scrollElements, key)
    IN  IF k = 0
        THEN [s EXCEPT !.threw = TRUE]  \* undefined.length, line 244
        ELSE LoadVisibleFrom(s, g, sc, s.scrollElements[k].list, 1, scrollElement)

(***************************** construction ********************************)
\* The loop of lines 33-40 from entry k of this.scrollElements on.
RECURSIVE SweepFrom(_, _, _, _)
SweepFrom(s, g, sc, k) ==
    IF k > Len(s.scrollElements) THEN s
    ELSE LET grp == s.scrollElements[k]
             s1 == LoadVisibleFrom(s, g, sc, grp.list, 1, grp.element)
         IN  IF s1.threw THEN s1 ELSE SweepFrom(s1, g, sc, k + 1)

\* this.init, called by the constructor.
init(s, g, sc, adv) ==
    LET s1 == getScrollElements(getElements(s), adv)
        s2 == IF s1.threw THEN s1 ELSE SweepFrom(s1, g, sc, 1)
        s3 == IF s2.threw THEN s2 ELSE postpone(s2, adv)
    IN  IF s3.threw THEN s3 ELSE start(s3, adv)

(************************** the initial document ***************************)
\* <img data-src="a.jpg" data-scroll-element=sel>, postpone attribute p.
Img(p, sel) == Element("img", p, "a.jpg", Null, Null, Null, sel, <<>>)

\* <video data-scroll-element=sel><source data-src="a.mp4"></video>,
\* postpone attribute p.
Video(p, sel) ==
    Element("video", p, Null, Null, Null, Null, sel,
            <<Child("source", "a.mp4", Null, Null, Null)>>)

\* The two nodes of a document, e1 before e2.
Doc(a, b) == [e \in ElemSet |-> IF e = Elems[1] THEN a ELSE b]

\* The documents the engine is constructed on: two nodes scrolling with the
\* window (the first an img or a video with a source child), with two
\* containers, with the window and a container, and one whose first node
\* names a scroll container that is not in the document.  Each node carries
\* postpone="true" or no postpone attribute.
Documents ==
    UNION {
        { Doc(Img(p, Null), Img(q, Null)),
          Doc(Video(p, Null), Img(q, Null)),
          Doc(Img(p, "#c1"), Img(q, "#c2")),
          Doc(Img(p, Null), Img(q, "#c1")),
          Doc(Img(p, "#missing"), Img(q, Null)) }
        : p \in {"true", Null}, q \in {"true", Null} }

\* The positions a scroll surface is at: its top, and its end.
ScrollPositions == {0, 1}

\* Every postponable node lies below the fold of its scroll surface and
\* comes into view at the end of the scroll; the containers start at the
\* top of body.
Layout ==
    [clientHeight |-> 1,
     top |-> [n \in Nodes |-> IF n \in ElemSet THEN 2 ELSE 0],
     parent |-> [n \in Nodes |-> IF n = "body" THEN Null ELSE "body"]]

\* What the last step did: the operation, the surface scrolled, the
\* argument watch was called with, whether it raised an error, the nodes it
\* called load() on, whether it ran postpone(), for a call of postpone() or
\* start() whether the step before was the same call, and for a call of
\* stop() whether a timer was pending when it began.
Did(op, target, s, arg) ==
    [op |-> op, target |-> target, threw |-> s.threw, loaded |-> s.loaded,
     rebuilt |-> s.rebuilt, arg |-> arg,
     again |-> (op \in {"postpone", "start"} /\ last.op = op),
     hadTimer |-> (op = "stop" /\ timers # {})]

\* The state before the engine is constructed on document d laid out as g
\* and scrolled to sc.
InitWith(d, g, sc) ==
    /\ dom = d
    /\ dataId = [c \in Containers |-> Null]
    /\ geo = g
    /\ scrollTop = sc
    /\ listeners = [t \in Targets |-> {}]
    /\ timers = {}
    /\ clock = 0
    /\ engine = "none"
    /\ elements = <<>>
    /\ scrollElements = <<>>
    /\ timeout = 0
    /\ hostEdits = 0
    /\ last = [op |-> "none", target |-> Null, threw |-> FALSE, loaded |-> {},
               rebuilt |-> FALSE, arg |-> Undefined, again |-> FALSE,
               hadTimer |-> FALSE]

\* The state before the engine is constructed on document d.
InitOn(d) == InitWith(d, Layout, [n \in {"body"} \cup Containers |-> 0])

\* isVisible() has not been called on its own.
NoCall == [el |-> Null, scrollElement |-> Null, at |-> 0, result |-> FALSE]

\* load() and isVisible() on their own are not exercised.
LoadIdle ==
    /\ isVisibleCall = NoCall
    /\ loadArg = Img("true", Null)
    /\ loadEl = loadArg
    /\ loadOnce = loadArg
    /\ loadCalls = 0
    /\ loadThrew = FALSE

Init == (\E d \in Documents : InitOn(d)) /\ LoadIdle

(******************************* actions ***********************************)
\* The state after a method has run is s.
Becomes(s) ==
    /\ dom' = s.dom
    /\ dataId' = s.dataId
    /\ listeners' = s.listeners
    /\ timers' = s.timers
    /\ clock' = s.clock
    /\ clock' <= MaxClock
    /\ elements' = s.elements
    /\ scrollElements' = s.scrollElements
    /\ timeout' = s.timeout

\* new Postpone()
Construct ==
    /\ engine = "none"
    /\ \E adv \in BOOLEAN :
          LET s == init(Here, geo, scrollTop, adv)
          IN  /\ Becomes(s)
              /\ engine' = IF s.threw THEN "dead" ELSE "live"
              /\ last' = Did("construct", Null, s, Undefined)
    /\ UNCHANGED <<geo, scrollTop, hostEdits, loadVars, isVisibleCall>>

\* The host calls postpone().
Postpone ==
    /\ engine = "live"
    /\ \E adv \in BOOLEAN :
          LET s == postpone(Here, adv)
          IN  Becomes(s) /\ last' = Did("postpone", Null, s, Undefined)
    /\ UNCHANGED <<geo, scrollTop, engine, hostEdits, loadVars, isVisibleCall>>

\* The host calls start().
Start ==
    /\ engine = "live"
    /\ LET s == start(Here, TRUE)
       IN  Becomes(s) /\ last' = Did("start", Null, s, Undefined)
    /\ UNCHANGED <<geo, scrollTop, engine, hostEdits, loadVars, isVisibleCall>>

\* The host calls stop().
Stop ==
    /\ engine = "live"
    /\ LET s == stop(Here)
       IN  Becomes(s) /\ last' = Did("stop", Null, s, Undefined)
    /\ UNCHANGED <<geo, scrollTop, engine, hostEdits, loadVars, isVisibleCall>>

\* A pending timer fires: the closure of lines 200-204 calls watch.
Tick ==
    /\ \E t \in timers, adv \in BOOLEAN :
          LET s == watch([Here EXCEPT !.timers = @ \ {t}], t.arg, adv)
          IN  Becomes(s) /\ last' = Did("tick", Null, s, t.arg)
    /\ UNCHANGED <<geo, scrollTop, engine, hostEdits, loadVars, isVisibleCall>>

\* The scroll surfaces that hold a postponable node: body for a node without
\* a data-scroll-element, the container its selector matches otherwise.
Surfaces(d) ==
    {n \in DOMAIN scrollTop :
        \E e \in ElemSet :
            IF Truthy(d[e].scrollSel) THEN QuerySelector(d[e].scrollSel) = n
            ELSE n = "body"}

\* The user scrolls a surface; the scroll event is delivered to the listener
\* on it, if there is one.
Scroll ==
    /\ \E n \in Surfaces(dom), v \in ScrollPositions :
          /\ v # scrollTop[n]
          /\ scrollTop' = [scrollTop EXCEPT ![n] = v]
          /\ LET target == IF n = "body" THEN "window" ELSE n
                 src == IF n = "body" THEN "document" ELSE n
             IN  IF listeners[target] # {}
                 THEN LET s == scrollHandler(Here, geo, scrollTop', src)
                      IN  Becomes(s) /\ last' = Did("scroll", n, s, Undefined)
                 ELSE Becomes(Here) /\ last' = Did("host", Null, Here, Undefined)
    /\ UNCHANGED <<geo, engine, hostEdits, loadVars, isVisibleCall>>

\* The values the host gives the postpone attribute.
Markers == {Null, "true", "false"}

\* The host document sets or removes a node's postpone attribute.
HostSetMarker ==
    /\ hostEdits < MaxHostEdits
    /\ hostEdits' = hostEdits + 1
    /\ \E e \in ElemSet, v \in Markers :
          /\ v # dom[e].postpone
          /\ dom' = [dom EXCEPT ![e].postpone = v]
    /\ last' = Did("host", Null, Here, Undefined)
    /\ UNCHANGED <<dataId, geo, scrollTop, listeners, timers, clock, engine,
                   elements, scrollElements, timeout, loadVars, isVisibleCall>>

\* The host document removes a container's data-id attribute.
HostClearId ==
    /\ hostEdits < MaxHostEdits
    /\ hostEdits' = hostEdits + 1
    /\ \E c \in Containers :
          /\ dataId[c] # Null
          /\ dataId' = [dataId EXCEPT ![c] = Null]
    /\ last' = Did("host", Null, Here, Undefined)
    /\ UNCHANGED <<dom, geo, scrollTop, listeners, timers, clock, engine,
                   elements, scrollElements, timeout, loadVars, isVisibleCall>>

Next ==
    \/ Construct
    \/ Postpone
    \/ Start
    \/ Stop
    \/ Tick
    \/ Scroll
    \/ HostSetMarker
    \/ HostClearId

Spec == Init /\ [][Next]_vars

(**************************** load() on its own ****************************)
\* A deferred attribute is absent or holds a URL.
Maybe(v) == {Null, v}

\* The child nodes load() is given: source nodes and other nodes, with and
\* without data-src and data-srcset, src and srcset not yet set.
Children ==
    {Child(t, ds, Null, dss, Null) :
        t \in {"source", "track"}, ds \in Maybe("c.mp4"), dss \in Maybe("c.jpg 2x")}

\* The sequences over S of length at most n.
SeqUpTo(S, n) == UNION {[1..k -> S] : k \in 0..n}

\* The elements load() is given: every tag of this.tags, with and without
\* each deferred attribute, with and without a src set beforehand, and with
\* up to MaxChildren children.
LoadInputs ==
    {Element(t, "true", ds, s, dx, Null, Null, ch) :
        t \in tags, ds \in Maybe("a.jpg"), s \in Maybe("placeholder.gif"),
        dx \in Maybe("#icon"), ch \in SeqUpTo(Children, MaxChildren)}

InitLoad ==
    /\ InitOn(Doc(Img("true", Null), Img("true", Null)))
    /\ loadArg \in LoadInputs
    /\ loadEl = loadArg
    /\ loadOnce = loadArg
    /\ loadCalls = 0
    /\ loadThrew = FALSE
    /\ isVisibleCall = NoCall

\* One more call of load() on the element.
CallLoad ==
    /\ loadCalls < MaxLoads
    /\ LET r == load(loadEl)
       IN  /\ loadEl' = r.el
           /\ loadThrew' = r.threw
           /\ loadOnce' = IF loadCalls = 0 THEN r.el ELSE loadOnce
    /\ loadCalls' = loadCalls + 1
    /\ UNCHANGED <<loadArg, engineVars, isVisibleCall>>

NextLoad == CallLoad

SpecLoad == InitLoad /\ [][NextLoad]_vars

(************************* getElements() on its own ************************)
\* Node names the scanned document uses: two of this.tags and one that
\* querySelectorAll( this.tags ) does not match.
ScanTags == {"img", "use", "div"}

\* The postpone attribute of a scanned node: absent, empty, "true", "false".
ScanMarkers == {Null, "", "true", "false"}

\* The nodes of the scanned documents.
ScanNodes ==
    {Element(t, p, "a.jpg", Null, Null, Null, Null, <<>>) :
        t \in ScanTags, p \in ScanMarkers}

InitScan == (\E a \in ScanNodes, b \in ScanNodes : InitOn(Doc(a, b))) /\ LoadIdle

\* The host document gives a node's postpone attribute another value.
HostMark ==
    /\ \E e \in ElemSet, v \in ScanMarkers :
          /\ v # dom[e].postpone
          /\ dom' = [dom EXCEPT ![e].postpone = v]
    /\ last' = Did("host", Null, Here, Undefined)
    /\ UNCHANGED <<dataId, geo, scrollTop, listeners, timers, clock, engine,
                   elements, scrollElements, timeout, hostEdits, loadVars, isVisibleCall>>

\* A call of getElements().
Rescan ==
    /\ LET s == getElements(Here)
       IN  Becomes(s) /\ last' = Did("getElements", Null, s, Undefined)
    /\ UNCHANGED <<geo, scrollTop, engine, hostEdits, loadVars, isVisibleCall>>

NextScan == HostMark \/ Rescan

SpecScan == InitScan /\ [][NextScan]_vars

(************************** isVisible() on its own *************************)
\* The values of offsetTop, and of clientHeight and scrollTop.
Offsets == (0 - MaxOffset)..MaxOffset
Heights == 0..MaxOffset

\* The layouts isVisible() is called on: the first node and the first
\* container at any offset, the node positioned against the container, body
\* or nothing, the container against body or nothing.
GeoLayouts ==
    {[clientHeight |-> h,
      top |-> [n \in Nodes |-> IF n = Elems[1] THEN a ELSE IF n = "c1" THEN b ELSE 0],
      parent |-> [n \in Nodes |-> IF n = Elems[1] THEN p
                                  ELSE IF n = "c1" THEN q
                                  ELSE IF n = "body" THEN Null ELSE "body"]] :
        h \in Heights, a \in Offsets, b \in Offsets,
        p \in {"body", "c1", Null}, q \in {"body", Null}}

InitGeo ==
    /\ \E g \in GeoLayouts, sc \in [{"body"} \cup Containers -> Heights] :
          /\ sc["c2"] = 0
          /\ InitWith(Doc(Img("true", "#c1"), Img("true", Null)), g, sc)
    /\ LoadIdle

\* The node whose scrollTop isVisible() reads for scrollElement.
ScrollNode(scrollElement) ==
    IF scrollElement = Null \/ scrollElement = "window" THEN "body"
    ELSE scrollElement

\* The user scrolls body or the first container.
GeoScroll ==
    /\ \E n \in {"body", "c1"}, v \in Heights :
          /\ v # scrollTop[n]
          /\ scrollTop' = [scrollTop EXCEPT ![n] = v]
    /\ UNCHANGED <<dom, dataId, geo, listeners, timers, clock, engine, elements,
                   scrollElements, timeout, hostEdits, last, loadVars, isVisibleCall>>

\* A call of isVisible() on the first node, against the window, the first
\* container, or with no scroll element given.
CallIsVisible ==
    /\ \E scrollElement \in {"window", "c1", Null} :
          isVisibleCall' =
             [el |-> Elems[1], scrollElement |-> scrollElement,
              at |-> scrollTop[ScrollNode(scrollElement)],
              result |-> isVisible(geo, scrollTop, Elems[1], scrollElement)]
    /\ UNCHANGED <<engineVars, loadVars>>

NextGeo == GeoScroll \/ CallIsVisible

SpecGeo == InitGeo /\ [][NextGeo]_vars

(******************************* claims ************************************)
\* The scroll surface that governs a node: the node its data-scroll-element
\* matches, the window when it has none.
OwnContainer(e) ==
    IF Truthy(dom[e].scrollSel) THEN QuerySelector(dom[e].scrollSel) ELSE "window"

\* The visibility inequality of a node against its own scroll surface.
OwnVisible(e) == isVisible(geo, scrollTop, e, OwnContainer(e))

\* The node has been activated: no marker, deferred attributes copied.
Activated(el) ==
    /\ el.postpone = Null
    /\ (InSrcList(el.tag) /\ el.dataSrc # Null) => el.src = el.dataSrc
    /\ (InXlinkList(el.tag) /\ el.dataXlink # Null) => el.xlink = el.dataXlink

\* The number of scroll listeners attached, over all surfaces.
ListenerCount(ls) ==
    Cardinality(UNION {{<<t, c>> : c \in ls[t]} : t \in DOMAIN ls})

\* The snapshot of the currently discovered set.
CurrentSnapshot == stringifyElements(dom, getElements(Here).elements)

\* C1: when scrollHandler returns from a scroll event of a bound container,
\* every node of that container's group that satisfies the visibility
\* inequality has been activated, whatever its position and tag.
C1_ScrollActivatesAllVisible ==
    last.op = "scroll" =>
        LET key == IF last.target = "body" THEN "window" ELSE dataId[last.target]
            scrollElement == IF last.target = "body" THEN "window" ELSE last.target
            k == KeyIndex(scrollElements, key)
        IN  k # 0 =>
              \A i \in 1..Len(scrollElements[k].list) :
                 LET e == scrollElements[k].list[i]
                 IN  isVisible(geo, scrollTop, e, scrollElement) => Activated(dom[e])

\* C2: a poll tick that was scheduled by an earlier tick runs postpone()
\* exactly when the snapshot of the discovered set differs from the
\* snapshot the earlier tick captured, the empty snapshot included.
C2_TickRebuildsIffSnapshotDiffers ==
    last.op = "tick" => (last.rebuilt <=> last.arg # CurrentSnapshot)

\* C3: every surface carries at most one scroll listener, every attached
\* listener is the callback recorded for that surface in the current group
\* index, and postpone() run right after postpone() leaves the number of
\* attached listeners unchanged.
C3_ListenersDoNotAccumulate ==
    /\ [](\A t \in Targets :
            /\ Cardinality(listeners[t]) <= 1
            /\ \A c \in listeners[t] :
                  \E k \in 1..Len(scrollElements) :
                     /\ scrollElements[k].callback = c
                     /\ ListenerTarget(scrollElements[k]) = t)
    /\ [][(last.op = "postpone" /\ last'.op = "postpone")
            => ListenerCount(listeners') = ListenerCount(listeners)]_vars

\* C3 witness: postpone() has run twice in a row and listeners are attached
\* to two surfaces.
C3_Witness ==
    /\ last.op = "postpone" /\ last.again /\ ~last.threw
    /\ ListenerCount(listeners) = 2

\* C4: construction completes normally and leaves the engine started: no
\* node that is still marked satisfies the visibility inequality, every
\* still-marked node's scroll surface carries a listener, and a poll timer
\* is pending.
C4_ConstructionStartsEngine ==
    last.op = "construct" =>
        /\ ~last.threw
        /\ engine = "live"
        /\ Cardinality(timers) = 1
        /\ \A e \in ElemSet :
              IsPostponed(dom[e].postpone) =>
                 /\ ~OwnVisible(e)
                 /\ listeners[OwnContainer(e)] # {}

\* C5: every poll tick ends with the next tick scheduled.
C5_TickSchedulesNextTick ==
    last.op = "tick" => (~last.threw /\ timers # {})

\* C6: at most one poll timer is pending at any time.
C6_AtMostOneTimer == Cardinality(timers) <= 1

\* C6 witness: start() has been called twice in a row and one timer is
\* pending.
C6_Witness ==
    last.op = "start" /\ last.again /\ Cardinality(timers) = 1

\* C7: when stop() returns no poll timer is pending; while none is pending
\* no step but start() runs a tick or schedules one; and stop() called with
\* no timer pending changes no engine state.
C7_StopCancelsPolling ==
    [][/\ last'.op = "stop" => timers' = {}
       /\ (engine = "live" /\ timers = {} /\ last'.op # "start")
            => (timers' = {} /\ last'.op # "tick")
       /\ (last'.op = "stop" /\ timers = {})
            => UNCHANGED <<dom, dataId, listeners, timers, clock, engine,
                           elements, scrollElements, timeout>>]_vars

\* C7 witness: stop() was called with a timer pending and none is pending
\* now.
C7_Witness == last.op = "stop" /\ last.hadTimer /\ timers = {}

\* C8: the engine calls load() on a node, in the initial sweep or in a
\* scroll handler, only if the node satisfies the visibility inequality
\* against its own governing scroll surface at that moment.
C8_ActivatesOnlyVisible ==
    last.op \in {"construct", "scroll"} => \A e \in last.loaded : OwnVisible(e)

\* What the rule table prescribes for a child of el.
PrescribedChild(el, c) ==
    IF c.tag = "source" /\ InAudioVideoList(el.tag)
    THEN [c EXCEPT !.src = IF c.dataSrc # Null THEN c.dataSrc ELSE @]
    ELSE IF c.tag = "source" /\ el.tag = "picture"
    THEN [c EXCEPT !.src = IF c.dataSrc # Null THEN c.dataSrc ELSE @,
                   !.srcset = IF c.dataSrcset # Null THEN c.dataSrcset ELSE @]
    ELSE c

\* What the rule table prescribes for el.
Prescribed(el) ==
    [el EXCEPT
        !.postpone = Null,
        !.src = IF InSrcList(el.tag) /\ el.dataSrc # Null THEN el.dataSrc ELSE @,
        !.xlink = IF InXlinkList(el.tag) /\ el.dataXlink # Null
                  THEN el.dataXlink ELSE @,
        !.children = [i \in 1..Len(el.children) |-> PrescribedChild(el, el.children[i])]]

\* C9: load(el) leaves el as the rule table prescribes and raises no error,
\* for every tag, every combination of deferred attributes and every list
\* of children.
C9_LoadFollowsRuleTable ==
    loadCalls = 1 => (loadEl = Prescribed(loadArg) /\ ~loadThrew)

\* C10: a second call of load(el) leaves el as the first call left it and
\* raises no error.
C10_LoadIdempotent ==
    loadCalls = 2 => (loadEl = loadOnce /\ ~loadThrew)

\* The nodes listed in group k of the index gs.
Members(gs, k) == {gs[k].list[i] : i \in 1..Len(gs[k].list)}

\* C11: a scroll event on one bound surface changes no node of any other
\* group of the index, and leaves the index (every group's list) and the
\* attached listeners as they were.
C11_ScrollLeavesOtherGroups ==
    [][last'.op = "scroll" =>
          LET key == IF last'.target = "body" THEN "window"
                     ELSE dataId[last'.target]
              k == KeyIndex(scrollElements, key)
          IN  /\ scrollElements' = scrollElements
              /\ listeners' = listeners
              /\ \A j \in 1..Len(scrollElements) :
                    j # k => \A e \in Members(scrollElements, j) : dom'[e] = dom[e]]_vars

\* C11 witness: two groups are bound, the scroll of one surface has
\* activated a node, and the other group holds a node that is still marked.
C11_Witness ==
    /\ last.op = "scroll" /\ ~last.threw /\ last.loaded # {}
    /\ Len(scrollElements) = 2
    /\ \A j \in 1..2 :
          scrollElements[j].callback \in listeners[ListenerTarget(scrollElements[j])]
    /\ \E j \in 1..2 :
          /\ Members(scrollElements, j) \cap last.loaded = {}
          /\ \E e \in Members(scrollElements, j) : IsPostponed(dom[e].postpone)

\* The step ran Discovery and the engine went on after it: a tick, start(),
\* postpone() past the test of line 72, or a construction that got to its
\* call of postpone().
Discovered ==
    \/ last'.op \in {"tick", "start"}
    \/ last'.op = "postpone" /\ elements # <<>>
    \/ last'.op = "construct" /\ last'.rebuilt

\* The step rebuilt the group index: it ran postpone() and postpone() found
\* this.elements non-empty at line 72.
Regrouped ==
    /\ last'.rebuilt
    /\ last'.op = "postpone" => elements # <<>>
    /\ last'.op = "tick" => elements' # <<>>
    /\ last'.op = "construct" => getElements(Here).elements # <<>>

\* An attribute that is set stays set.
Kept(before, after) == before # Null => after # Null

\* C12: the engine never gives a node its marker back and never removes a
\* src, srcset or xlink:href that is set; a node without the marker is in no
\* Discovery result of a later scan and in no group of a later rebuild.
C12_ActivationIsOneShot ==
    [][last'.op # "host" =>
          /\ \A e \in ElemSet :
                /\ dom[e].postpone = Null => dom'[e].postpone = Null
                /\ Kept(dom[e].src, dom'[e].src)
                /\ Kept(dom[e].xlink, dom'[e].xlink)
                /\ \A i \in 1..Len(dom[e].children) :
                      /\ Kept(dom[e].children[i].src, dom'[e].children[i].src)
                      /\ Kept(dom[e].children[i].srcset, dom'[e].children[i].srcset)
          /\ Discovered =>
                \A i \in 1..Len(elements') : dom'[elements'[i]].postpone # Null
          /\ Regrouped =>
                \A k \in 1..Len(scrollElements') :
                   \A e \in Members(scrollElements', k) : dom'[e].postpone # Null]_vars

\* C12 witness: a tick has rebuilt the index after a node was activated; the
\* activated node is neither discovered nor grouped, another node is.
C12_Witness ==
    /\ last.op = "tick" /\ last.rebuilt /\ ~last.threw
    /\ elements # <<>> /\ scrollElements # <<>>
    /\ \E e \in ElemSet :
          /\ dom[e].postpone = Null /\ dom[e].src = dom[e].dataSrc
          /\ dom[e].src # Null
          /\ \A i \in 1..Len(elements) : elements[i] # e
          /\ \A k \in 1..Len(scrollElements) : e \notin Members(scrollElements, k)

\* C13: a scroll event whose source maps to no group of the index is
\* ignored: the handler raises no error, activates nothing and changes no
\* engine state.
C13_StrayScrollIgnored ==
    [][(/\ last'.op = "scroll"
        /\ KeyIndex(scrollElements,
                    IF last'.target = "body" THEN "window"
                    ELSE dataId[last'.target]) = 0)
          => /\ ~last'.threw
             /\ last'.loaded = {}
             /\ UNCHANGED <<dom, dataId, listeners, timers, clock, elements,
                            scrollElements, timeout>>]_vars

\* The place of a node in document order.
DocumentOrder(e) == CHOOSE i \in 1..Len(Elems) : Elems[i] = e

\* C14: the result of Discovery holds exactly the nodes of an allow-listed
\* tag whose postpone attribute is present and not "false", the empty
\* attribute included, each once and in document order.
C14_DiscoveryIsExact ==
    last.op = "getElements" =>
        /\ \A e \in ElemSet :
              (\E i \in 1..Len(elements) : elements[i] = e)
                 <=> /\ dom[e].tag \in tags
                     /\ dom[e].postpone # Null
                     /\ dom[e].postpone # "false"
        /\ \A i \in 1..Len(elements) : \A j \in 1..Len(elements) :
              i < j => DocumentOrder(elements[i]) < DocumentOrder(elements[j])

\* C14 witness: a scan has found a node with an empty marker and passed
\* over a node marked "false".
C14_Witness ==
    /\ last.op = "getElements"
    /\ \E e \in ElemSet, f \in ElemSet :
          /\ dom[e].postpone = "" /\ dom[e].tag \in tags
          /\ elements = <<e>>
          /\ dom[f].postpone = "false" /\ dom[f].tag \in tags

\* The step ran getScrollElements(): a construction, or a rebuild.
Grouped == last'.op = "construct" \/ Regrouped

\* C15: after getScrollElements() every discovered node without a
\* data-scroll-element, or with an empty one, is in the group keyed "window"
\* whose element is the window, and in no other group.
C15_UnscopedNodesInWindowGroup ==
    [][Grouped =>
          \A i \in 1..Len(elements') :
             LET e == elements'[i]
             IN  ~Truthy(dom'[e].scrollSel) =>
                   \E k \in 1..Len(scrollElements') :
                      /\ scrollElements'[k].id = "window"
                      /\ scrollElements'[k].element = "window"
                      /\ e \in Members(scrollElements', k)
                      /\ \A j \in 1..Len(scrollElements') :
                            j # k => e \notin Members(scrollElements', j)]_vars

\* The sum of offsetTop over a node and the nodes it is positioned against,
\* up to body; no node of a layout is more than two steps from body.
TopOffset(n) ==
    IF n = Null \/ n = "body" THEN 0
    ELSE LET p == geo.parent[n]
         IN  geo.top[n] + (IF p = Null \/ p = "body" THEN 0 ELSE geo.top[p])

\* C16: isVisible returns true exactly when the viewport height plus the
\* container's scroll position plus the container's top offset is at least
\* the element's top offset; and a node reported visible at one scroll
\* position of a container is reported visible at every larger one.
C16_VisibleIffInequality ==
    /\ [](isVisibleCall.el # Null =>
            (isVisibleCall.result <=>
                geo.clientHeight + isVisibleCall.at
                    + TopOffset(ScrollNode(isVisibleCall.scrollElement))
                  >= TopOffset(isVisibleCall.el)))
    /\ [][(/\ isVisibleCall.el # Null
           /\ isVisibleCall'.el = isVisibleCall.el
           /\ ScrollNode(isVisibleCall'.scrollElement)
                 = ScrollNode(isVisibleCall.scrollElement)
           /\ isVisibleCall'.at >= isVisibleCall.at
           /\ isVisibleCall.result)
             => isVisibleCall'.result]_vars

\* C16 witness: the node, positioned inside the container, was reported
\* visible against the scrolled container with the two sides equal.
C16_Witness ==
    /\ isVisibleCall.el # Null /\ isVisibleCall.result
    /\ isVisibleCall.scrollElement = "c1" /\ isVisibleCall.at > 0
    /\ geo.parent[isVisibleCall.el] = "c1" /\ geo.top["c1"] # 0
    /\ geo.clientHeight + isVisibleCall.at + TopOffset("c1")
          = TopOffset(isVisibleCall.el)

\* C17: after a construction that completed, after every poll tick, call of
\* postpone() and scroll event, every node of this.elements is a member of
\* exactly one group of this.scrollElements.
C17_EveryElementInOneGroup ==
    (engine = "live" /\ last.op \in {"construct", "tick", "postpone", "scroll"}) =>
        \A i \in 1..Len(elements) :
           Cardinality({k \in 1..Len(scrollElements) :
                           elements[i] \in Members(scrollElements, k)}) = 1

\* C18: two containers never carry the same identifier, the engine never
\* changes an identifier a container has, and every node of a group has the
\* group's container as its own scroll container.
C18_ContainerIdsUnique ==
    /\ [](/\ \A c \in Containers : \A d \in Containers :
                (c # d /\ dataId[c] # Null) => dataId[c] # dataId[d]
          /\ \A k \in 1..Len(scrollElements) :
                \A e \in Members(scrollElements, k) :
                   OwnContainer(e) = scrollElements[k].element)
    /\ [][last'.op # "host" =>
            \A c \in Containers : dataId[c] # Null => dataId'[c] = dataId[c]]_vars

\* C19: a scroll event changes no attribute of a node, or of its children,
\* whose postpone attribute is absent or "false" when the event arrives.
C19_ScrollWritesOnlyMarkedNodes ==
    [][last'.op = "scroll" =>
          \A e \in ElemSet :
             ~IsPostponed(dom[e].postpone) =>
                (dom'[e] = dom[e] /\ e \notin last'.loaded)]_vars

\* C20: when a call of postpone() returns, no listener is bound if the
\* document holds no marked node, and otherwise every marked node is in a
\* group whose scroll surface carries that group's listener, whatever
\* this.elements was before the call.
C20_PostponeBindsCurrentDocument ==
    (last.op = "postpone" /\ ~last.threw) =>
        IF \A e \in ElemSet : ~(dom[e].tag \in tags /\ IsPostponed(dom[e].postpone))
        THEN \A t \in Targets : listeners[t] = {}
        ELSE \A e \in ElemSet :
                (dom[e].tag \in tags /\ IsPostponed(dom[e].postpone)) =>
                   \E k \in 1..Len(scrollElements) :
                      /\ e \in Members(scrollElements, k)
                      /\ scrollElements[k].callback
                            \in listeners[ListenerTarget(scrollElements[k])]

====
